---------------------------- MODULE Spec2Model ----------------------------
(***************************************************************************)
(* State-machine model of src/db-helper.js: the student-records            *)
(* persistence layer over IndexedDB (primary store), localStorage (durable *)
(* flat store) and sessionStorage (session-scoped flat store), with the    *)
(* JSON export/import envelope.                                            *)
(*                                                                         *)
(* Every async function is a task whose steps are the code segments        *)
(* between two suspension points (await of a connection open or of a       *)
(* request of a transaction).  A segment runs without interruption, as     *)
(* JavaScript runs it.                                                     *)
(***************************************************************************)
EXTENDS Naturals, Sequences, FiniteSets

\* ------------------------------------------------------------------ bounds
MaxId == 2          \* record ids are 1..MaxId
MaxCalls == 2       \* tasks (calls that can be in progress at once)

Ids == 1..MaxId
Vals == {"a", "b"}  \* the payload of a record (everything but its id)
Tasks == 1..MaxCalls

\* A record (student): `id` is the key path of the object store.  Record 1
\* comes in two versions, the other records in one.
Student == {r \in [id : Ids, v : Vals] : r.id # 1 => r.v = "a"}

\* --------------------------------------------------------------- JSON values
\* A JSON-compatible JavaScript value: undefined, null, an array of records or
\* an object with at most one member "k".
Undef == [t |-> "undef", a |-> <<>>]
Null == [t |-> "null", a |-> <<>>]
Arr(s) == [t |-> "arr", a |-> s]
Obj(s) == [t |-> "obj", a |-> s]

\* JavaScript truthiness (null and undefined are falsy; [] and {} are truthy).
Truthy(x) == x.t \in {"arr", "obj"}
IsArray(x) == x.t = "arr"

\* The storage keys of the flat stores.
STORE_NAME == "students"
AuxFields == <<"blockedStudents", "departments", "customSubjects", "settings">>
AuxKey(f) == IF f = "settings" THEN "requiredSubjectSettings" ELSE f
AuxKeys == {AuxKey(AuxFields[i]) : i \in 1..Len(AuxFields)}
Keys == {STORE_NAME} \cup AuxKeys

\* getItem() of a key that is not stored gives null; the code tests the string
\* for truthiness only, so null and the empty string are the same to it.
Absent == <<>>

\* JSON text is a sequence of tokens.
Digits == <<"1", "2", "3", "4", "5", "6", "7", "8", "9">>
DigitVal(d) == CHOOSE i \in 1..Len(Digits) : Digits[i] = d
IsDigit(d) == \E i \in 1..Len(Digits) : Digits[i] = d
Punct == {"[", "]", "{", "}", ",", "null", "k"}

ItemTok(r) == <<"{", Digits[r.id], r.v, "}">>

RECURSIVE Join(_)
Join(s) ==
    IF s = <<>> THEN <<>>
    ELSE IF Len(s) = 1 THEN ItemTok(s[1])
    ELSE ItemTok(s[1]) \o <<",">> \o Join(Tail(s))

\* JSON.stringify(x), x not undefined.
Stringify(x) ==
    CASE x.t = "arr" -> <<"[">> \o Join(x.a) \o <<"]">>
      [] x.t = "obj" -> IF x.a = <<>> THEN <<"{", "}">>
                        ELSE <<"{", "k">> \o ItemTok(x.a[1]) \o <<"}">>
      [] OTHER -> <<"null">>

ParseFail == [ok |-> FALSE, v |-> Undef]
ParseOk(x) == [ok |-> TRUE, v |-> x]

IsItem(s) ==
    /\ Len(s) = 4
    /\ s[1] = "{"
    /\ IsDigit(s[2])
    /\ s[3] \notin Punct
    /\ s[4] = "}"
ItemOf(s) == [id |-> DigitVal(s[2]), v |-> s[3]]

RECURSIVE ParseItems(_)
ParseItems(s) ==
    IF Len(s) < 4 \/ ~IsItem(SubSeq(s, 1, 4)) THEN ParseFail
    ELSE IF Len(s) = 4 THEN ParseOk(<<ItemOf(s)>>)
    ELSE IF Len(s) < 9 \/ s[5] # "," THEN ParseFail
    ELSE LET r == ParseItems(SubSeq(s, 6, Len(s)))
         IN IF r.ok THEN ParseOk(<<ItemOf(s)>> \o r.v) ELSE ParseFail

\* JSON.parse(s): ok = FALSE when it throws SyntaxError.
Parse(s) ==
    IF s = <<"null">> THEN ParseOk(Null)
    ELSE IF Len(s) >= 2 /\ s[1] = "[" /\ s[Len(s)] = "]"
    THEN IF Len(s) = 2 THEN ParseOk(Arr(<<>>))
         ELSE LET r == ParseItems(SubSeq(s, 2, Len(s) - 1))
              IN IF r.ok THEN ParseOk(Arr(r.v)) ELSE ParseFail
    ELSE IF s = <<"{", "}">> THEN ParseOk(Obj(<<>>))
    ELSE IF Len(s) = 7 /\ s[1] = "{" /\ s[2] = "k" /\ s[7] = "}"
            /\ IsItem(SubSeq(s, 3, 6))
    THEN ParseOk(Obj(<<ItemOf(SubSeq(s, 3, 6))>>))
    ELSE ParseFail

\* A stored text that is not JSON (a truncated array).
Malformed == <<"[", "{">>


\* ------------------------------------------------------------ value universes
SeqsUpTo(S, n) == UNION {[1..k -> S] : k \in 0..n}

UniqueIds(s) == \A i, j \in 1..Len(s) : i # j => s[i].id # s[j].id

\* The record arrays handed to saveStudents: ids are unique (data model).
Arrays == {s \in SeqsUpTo(Student, MaxId) : UniqueIds(s)}

\* The contents an object store keyed by id can have.
Stores == {S \in SUBSET Student : \A x, y \in S : x.id = y.id => x = y}

\* The four auxiliary blobs of an envelope, by field.
IsArrayField(f) == f \in {"blockedStudents", "departments"}
Sample == [id |-> 1, v |-> "a"]
AuxEmpty(f) == IF IsArrayField(f) THEN Arr(<<>>) ELSE Obj(<<>>)
AuxNonEmpty(f) == IF IsArrayField(f) THEN Arr(<<Sample>>) ELSE Obj(<<Sample>>)
AuxFieldSet == {AuxFields[i] : i \in 1..Len(AuxFields)}

Data(st, aux) ==
    [students |-> st,
     blockedStudents |-> aux["blockedStudents"],
     departments |-> aux["departments"],
     customSubjects |-> aux["customSubjects"],
     settings |-> aux["settings"]]

NoData == Data(Undef, [f \in AuxFieldSet |-> Undef])

\* jsonData, the argument of importData: `present` is its truthiness,
\* `hasData` the truthiness of jsonData.data.
NoJson == [present |-> FALSE, hasData |-> FALSE, version |-> "", data |-> NoData]
NoDataJson == [present |-> TRUE, hasData |-> FALSE, version |-> "1.0", data |-> NoData]
Envelope(d) == [present |-> TRUE, hasData |-> TRUE, version |-> "1.0", data |-> d]

\* A few record arrays: none, one record, and two records out of key order
\* with the other version of record 1.
SmallArrays ==
    {<<>>, <<[id |-> 1, v |-> "a"]>>,
     <<[id |-> 2, v |-> "a"], [id |-> 1, v |-> "b"]>>}

\* The envelopes a caller hands to importData besides those exportData made:
\* none; one without data; one with records and every blob set; one whose
\* students member is no array and whose blobs are null.
Envelopes ==
    {NoJson, NoDataJson,
     Envelope(Data(Arr(<<[id |-> 2, v |-> "a"], [id |-> 1, v |-> "b"]>>),
                   [f \in AuxFieldSet |-> AuxNonEmpty(f)])),
     Envelope(Data(Obj(<<>>), [f \in AuxFieldSet |-> Null]))}

\* ---------------------------------------------------------------- the state
VARIABLES
    supported,  \* window.indexedDB is there (fixed for the session)
    db,         \* the cached connection: FALSE is null (line 12)
    idb,        \* the records of object store 'students', as committed
    ls,         \* localStorage: key -> text
    ss,         \* sessionStorage: key -> text
    txq,        \* the live transactions on the store, oldest first
    task,       \* per task: the call in progress and its locals
    last,       \* the call that returned last
    prev        \* the call that returned before it

vars == <<supported, db, idb, ls, ss, txq, task, last, prev>>

Snapshot == [idb |-> idb, ls |-> ls, ss |-> ss, db |-> db]
EmptyFlat == [k \in Keys |-> Absent]
EmptySnap == [idb |-> {}, ls |-> EmptyFlat, ss |-> EmptyFlat, db |-> FALSE]

\* What a call returned: a boolean, a value, an envelope, or it threw (its
\* promise was rejected).
RetNone == [k |-> "none", b |-> FALSE, x |-> Undef, e |-> NoJson]
RetBool(b) == [k |-> "bool", b |-> b, x |-> Undef, e |-> NoJson]
RetVal(x) == [k |-> "value", b |-> FALSE, x |-> x, e |-> NoJson]
RetEnv(e) == [k |-> "envelope", b |-> FALSE, x |-> Undef, e |-> e]
RetThrow == [k |-> "throw", b |-> FALSE, x |-> Undef, e |-> NoJson]

\* The locals of a call.  top: the function the caller invoked; pc: the await
\* it is suspended at; students: the argument of saveStudents; idx: the index
\* of the pending put; undo: the store as the transaction found it; clean: no
\* storage operation of the call failed; pre: the storage when it was called;
\* log: the storage operations it issued, in order.
IdleFrame ==
    [top |-> "idle", pc |-> "idle", students |-> <<>>, jsonData |-> NoJson,
     idx |-> 0, undo |-> {}, clean |-> TRUE, pre |-> EmptySnap, log |-> <<>>]

NoCall ==
    [op |-> "none", students |-> <<>>, jsonData |-> NoJson, ret |-> RetNone,
     clean |-> TRUE, pre |-> EmptySnap, log |-> <<>>]

\* Of the call before the last one: what it was, and how it ended.
Brief(c) == [op |-> c.op, students |-> c.students, ret |-> c.ret, clean |-> c.clean]

\* The machine as a segment of code sees and changes it.
Cur(t) ==
    [ls |-> ls, ss |-> ss, idb |-> idb, db |-> db, txq |-> txq,
     frame |-> task[t], done |-> FALSE, ret |-> RetNone]

Enter(t, op, R, E) ==
    [Cur(t) EXCEPT !.frame = [IdleFrame EXCEPT !.top = op, !.students = R,
                                               !.jsonData = E, !.pre = Snapshot]]

Return(m, r) == [m EXCEPT !.done = TRUE, !.ret = r]

Apply(t, m) ==
    /\ ls' = m.ls
    /\ ss' = m.ss
    /\ idb' = m.idb
    /\ db' = m.db
    /\ txq' = m.txq
    /\ UNCHANGED supported
    /\ IF m.done
       THEN /\ task' = [task EXCEPT ![t] = IdleFrame]
            /\ prev' = Brief(last)
            /\ last' = [op |-> m.frame.top, students |-> m.frame.students,
                        jsonData |-> m.frame.jsonData, ret |-> m.ret,
                        clean |-> m.frame.clean, pre |-> m.frame.pre,
                        log |-> m.frame.log]
       ELSE /\ task' = [task EXCEPT ![t] = m.frame]
            /\ UNCHANGED <<last, prev>>

\* ------------------------------------------------------------ storage steps
Logged(m, e) == [m EXCEPT !.frame.log = Append(@, e)]
Faulted(m) == [m EXCEPT !.frame.clean = FALSE]

\* localStorage.setItem(key, text); it throws when ok is FALSE (quota).
LsSet(m, key, text, ok) ==
    IF ok THEN Logged([m EXCEPT !.ls[key] = text], "lsSet")
    ELSE Faulted(Logged(m, "lsThrow"))

\* sessionStorage.setItem(key, text)
SsSet(m, key, text, ok) ==
    IF ok THEN Logged([m EXCEPT !.ss[key] = text], "ssSet")
    ELSE Faulted(Logged(m, "ssThrow"))

\* store.put(r): the record replaces the one with its key.
Put(S, r) == {x \in S : x.id # r.id} \cup {r}

\* store.getAll(): the records in key order.
RECURSIVE SortById(_)
SortById(S) ==
    IF S = {} THEN <<>>
    ELSE LET r == CHOOSE x \in S : \A y \in S : x.id <= y.id
         IN <<r>> \o SortById(S \ {r})

\* The live transactions ahead of position i of queue q are all read-only.
NoWriterAhead(q, i) == \A j \in 1..(i - 1) : q[j].mode = "readonly"

\* db.transaction([STORE_NAME], mode).  A read-only transaction starts once
\* no read-write transaction created before it is live, and from then on
\* reads the store as it was at that moment (snap).
BeginTx(m, t, mode) ==
    LET free == NoWriterAhead(m.txq, Len(m.txq) + 1)
    IN [m EXCEPT !.txq = Append(@, [task |-> t, mode |-> mode,
                                    started |-> free,
                                    snap |-> IF free /\ mode = "readonly"
                                             THEN m.idb ELSE {}])]

\* The transaction of task t is finished: the read-only transactions that
\* waited for it start, over the store as it is now.
EndTx(m, t) ==
    LET q == SelectSeq(m.txq, LAMBDA e : e.task # t)
    IN [m EXCEPT !.txq =
          [i \in 1..Len(q) |->
             IF ~q[i].started /\ NoWriterAhead(q, i)
             THEN [q[i] EXCEPT !.started = TRUE,
                               !.snap = IF q[i].mode = "readonly" THEN m.idb ELSE {}]
             ELSE q[i]]]

\* What the read-only transaction of task t reads.
TxSnap(q, t) == LET i == CHOOSE i \in 1..Len(q) : q[i].task = t IN q[i].snap

\* CanRun of a store that runs the requests of every live transaction as they
\* come, whatever transactions were created before.
CanRunAny(t) == \E i \in 1..Len(txq) : txq[i].task = t

\* The requests of the transaction of task t can be served.  Read-write
\* transactions on a store run one at a time, in the order of their creation,
\* and a transaction created after a read-write one waits for it.  Whether a
\* read-write transaction waits for the read-only ones created before it is
\* left to the store (it may give them a snapshot instead): it need not.
CanRun(t) ==
    \E i \in 1..Len(txq) :
        /\ txq[i].task = t
        /\ NoWriterAhead(txq, i)

\* --------------------------------------------------------------- importData
\* ImportAux that takes an empty array or object for nothing to write.
RECURSIVE ImportAuxSkipsEmpty(_, _, _)
ImportAuxSkipsEmpty(m, i, n) ==
    IF i > Len(AuxFields) THEN Return(m, RetBool(TRUE))
    ELSE LET f == AuxFields[i]
             x == m.frame.jsonData.data[f]
         IN IF ~Truthy(x) \/ x.a = <<>> THEN ImportAuxSkipsEmpty(m, i + 1, n)
            ELSE IF n = 1
            THEN Return(LsSet(m, AuxKey(f), Stringify(x), FALSE), RetThrow)
            ELSE ImportAuxSkipsEmpty(LsSet(m, AuxKey(f), Stringify(x), TRUE), i + 1,
                                     IF n = 0 THEN 0 ELSE n - 1)

\* Lines 219-234: the auxiliary blobs, then `return true`.  The writes are
\* those of the truthy fields i..4; the n-th of them throws (n = 0: none),
\* which importData rethrows (lines 235-238).
RECURSIVE ImportAux(_, _, _)
ImportAux(m, i, n) ==
    IF i > Len(AuxFields) THEN Return(m, RetBool(TRUE))
    ELSE LET f == AuxFields[i]
             x == m.frame.jsonData.data[f]
         IN IF ~Truthy(x) THEN ImportAux(m, i + 1, n)
            ELSE IF n = 1
            THEN Return(LsSet(m, AuxKey(f), Stringify(x), FALSE), RetThrow)
            ELSE ImportAux(LsSet(m, AuxKey(f), Stringify(x), TRUE), i + 1,
                           IF n = 0 THEN 0 ELSE n - 1)

\* ImportCont that looks at the boolean of saveStudents and gives up on false.
ImportContChecks(m, o, n) ==
    IF o # "true" THEN Return(m, RetThrow) ELSE ImportAux(m, 1, n)

\* Line 216 onwards: `await saveStudents(students)` has settled with
\* o \in {"true", "false", "throw"}; its boolean is not looked at.
ImportCont(m, o, n) ==
    IF o = "throw" THEN Return(m, RetThrow) ELSE ImportAux(m, 1, n)

\* -------------------------------------------------------------- saveStudents
\* A fault chooses which storage operations of a segment fail: ls, ss: the
\* setItem of lines 74 and 75 succeed; ls2: the setItem of line 111 succeeds;
\* aux: which auxiliary write of importData throws (0: none).
NoFault == [ls |-> TRUE, ss |-> TRUE, ls2 |-> TRUE, aux |-> 0]

\* saveStudents settles with o, for its caller.
SaveReturn(m, o, fl) ==
    IF m.frame.top = "import" THEN ImportCont(m, o, fl.aux)
    ELSE IF o = "throw" THEN Return(m, RetThrow)
    ELSE Return(m, RetBool(o = "true"))

\* Lines 108-113: the catch block writes the durable flat store again and
\* returns false; a setItem that throws there leaves the function by throwing.
SaveCatch(m, fl) ==
    LET m1 == LsSet(m, STORE_NAME, Stringify(Arr(m.frame.students)), fl.ls2)
    IN SaveReturn(m1, IF fl.ls2 THEN "false" ELSE "throw", fl)

\* Lines 83-90: the read-write transaction and its clear request.
SaveTx(m, t) ==
    Logged([BeginTx(m, t, "readwrite") EXCEPT !.frame.pc = "s_clear"], "clear")

\* Lines 19-27 of initDB as called at lines 79 and 124: without IndexedDB the
\* promise resolves null, else the open request is issued.
InitCall(m, label) ==
    LET m1 == [m EXCEPT !.frame.pc = label]
    IN IF supported THEN Logged(m1, "open") ELSE m1

\* SaveBegin that opens the connection or issues the clear before it writes
\* the flat stores.
SaveBeginPrimaryFirst(m, t, fl) ==
    LET text == Stringify(Arr(m.frame.students))
        m0 == IF m.db THEN SaveTx(m, t) ELSE InitCall(m, "s_init")
        m1 == LsSet(m0, STORE_NAME, text, fl.ls)
        m2 == SsSet(m1, STORE_NAME, text, fl.ss)
    IN IF ~fl.ls THEN SaveCatch(EndTx(m1, t), fl)
       ELSE IF ~fl.ss THEN SaveCatch(EndTx(m2, t), fl)
       ELSE m2

\* SaveBegin without the write of line 74 to the durable flat store.
SaveBeginSessionOnly(m, t, fl) ==
    LET text == Stringify(Arr(m.frame.students))
        m2 == SsSet(m, STORE_NAME, text, fl.ss)
    IN IF ~fl.ss THEN SaveCatch(m2, fl)
       ELSE IF m2.db THEN SaveTx(m2, t)
       ELSE InitCall(m2, "s_init")

\* SaveBegin without the write of line 75 to the session-scoped flat store.
SaveBeginDurableOnly(m, t, fl) ==
    LET text == Stringify(Arr(m.frame.students))
        m1 == LsSet(m, STORE_NAME, text, fl.ls)
    IN IF ~fl.ls THEN SaveCatch(m1, fl)
       ELSE IF m1.db THEN SaveTx(m1, t)
       ELSE InitCall(m1, "s_init")

\* Lines 72-91: from the call to the first await.
SaveBegin(m, t, fl) ==
    LET text == Stringify(Arr(m.frame.students))
        m1 == LsSet(m, STORE_NAME, text, fl.ls)
        m2 == SsSet(m1, STORE_NAME, text, fl.ss)
    IN IF ~fl.ls THEN SaveCatch(m1, fl)
       ELSE IF ~fl.ss THEN SaveCatch(m2, fl)
       ELSE IF m2.db THEN SaveTx(m2, t)
       ELSE InitCall(m2, "s_init")

\* Lines 29-38 and 80-91: the open request settled.
SaveOpened(m, t, ok, fl) ==
    IF ~supported
    THEN IF m.db THEN SaveTx(m, t) ELSE SaveReturn(m, "true", fl)
    ELSE IF ok THEN SaveTx([m EXCEPT !.db = TRUE], t)
    ELSE SaveCatch(Faulted(m), fl)

\* store.put(students[i]) is issued (line 96).
SavePutIssue(m, i) == Logged([m EXCEPT !.frame.pc = "s_put", !.frame.idx = i], "put")

\* SaveCleared with the clear request having no effect on the store.
SaveClearedKeeps(m, t, ok, fl) ==
    IF ok
    THEN LET m1 == [m EXCEPT !.frame.undo = m.idb]
         IN IF m1.frame.students = <<>>
            THEN SaveReturn(EndTx(m1, t), "true", fl)
            ELSE SavePutIssue(m1, 1)
    ELSE SaveCatch(Faulted(EndTx(m, t)), fl)

\* Lines 89-96: the clear request settled.  An error event that nobody
\* prevents aborts the transaction.
SaveCleared(m, t, ok, fl) ==
    IF ok
    THEN LET m1 == [m EXCEPT !.idb = {}, !.frame.undo = m.idb]
         IN IF m1.frame.students = <<>>
            THEN SaveReturn(EndTx(m1, t), "true", fl)
            ELSE SavePutIssue(m1, 1)
    ELSE SaveCatch(Faulted(EndTx(m, t)), fl)

\* SavePutDone that takes a failed put for done and goes on.
SavePutDoneSwallows(m, t, out, fl) ==
    LET i == m.frame.idx
        R == m.frame.students
        m1 == IF out = "ok" THEN [m EXCEPT !.idb = Put(@, R[i])] ELSE Faulted(m)
    IN IF i = Len(R) THEN SaveReturn(EndTx(m1, t), "true", fl)
       ELSE SavePutIssue(m1, i + 1)

\* Lines 94-103: a put request settled: "ok"; "error", the request failed and
\* the transaction is aborted, which undoes the clear and the puts before it;
\* "throw", store.put threw, which aborts nothing: what the transaction had
\* done is committed.
SavePutDone(m, t, out, fl) ==
    LET i == m.frame.idx
        R == m.frame.students
    IN CASE out = "ok" ->
              LET m1 == [m EXCEPT !.idb = Put(@, R[i])]
              IN IF i = Len(R) THEN SaveReturn(EndTx(m1, t), "true", fl)
                 ELSE SavePutIssue(m1, i + 1)
         [] out = "error" ->
              SaveCatch(Faulted(EndTx([m EXCEPT !.idb = m.frame.undo], t)), fl)
         [] OTHER -> SaveCatch(Faulted(EndTx(m, t)), fl)

\* ---------------------------------------------------------------- exportData
AuxText(m, f) == m.ls[AuxKey(f)]

\* JSON.parse(localStorage.getItem(key) || dflt), lines 176-179.
AuxParse(m, f) ==
    IF AuxText(m, f) = Absent THEN ParseOk(AuxEmpty(f)) ELSE Parse(AuxText(m, f))

\* ExportCont that leaves customSubjects out and exports its default.
ExportContDropsSubjects(m, x) ==
    IF \E i \in 1..Len(AuxFields) : ~AuxParse(m, AuxFields[i]).ok
    THEN Return(m, RetThrow)
    ELSE Return(m, RetEnv(Envelope(
             Data(x, [f \in AuxFieldSet |->
                        IF f = "customSubjects" THEN AuxEmpty(f)
                        ELSE AuxParse(m, f).v]))))

\* ExportCont that swallows a parse error and exports the key's default.
ExportContSwallows(m, x) ==
    Return(m, RetEnv(Envelope(
        Data(x, [f \in AuxFieldSet |->
                   IF AuxParse(m, f).ok THEN AuxParse(m, f).v ELSE AuxEmpty(f)]))))

\* Lines 176-198: `await loadStudents()` gave x.
ExportCont(m, x) ==
    IF \E i \in 1..Len(AuxFields) : ~AuxParse(m, AuxFields[i]).ok
    THEN Return(m, RetThrow)
    ELSE Return(m, RetEnv(Envelope(
             Data(x, [f \in AuxFieldSet |-> AuxParse(m, f).v]))))

\* -------------------------------------------------------------- loadStudents
LoadReturn(m, x) ==
    IF m.frame.top = "export" THEN ExportCont(m, x) ELSE Return(m, RetVal(x))

\* Lines 163-166
LoadCatch(m) == LoadReturn(m, Arr(<<>>))

\* LoadParsed that goes on to sessionStorage when the text does not parse.
LoadParsedFallsThrough(m, text) ==
    LET p == Parse(text)
        q == Parse(m.ss[STORE_NAME])
    IN IF p.ok /\ p.v.t # "null" THEN LoadReturn(m, p.v)
       ELSE IF m.ss[STORE_NAME] # Absent /\ q.ok THEN LoadReturn(m, q.v)
       ELSE LoadCatch(m)

\* `students.length` of line 149/157 throws on null.
LoadParsed(m, text) ==
    LET p == Parse(text)
    IN IF p.ok /\ p.v.t # "null" THEN LoadReturn(m, p.v) ELSE LoadCatch(m)

\* LoadFlat that takes an empty array in localStorage for nothing and goes on
\* to sessionStorage.
LoadFlatSkipsEmpty(m) ==
    IF m.ls[STORE_NAME] # Absent /\ m.ls[STORE_NAME] # Stringify(Arr(<<>>))
    THEN LoadParsed(m, m.ls[STORE_NAME])
    ELSE IF m.ss[STORE_NAME] # Absent THEN LoadParsed(m, m.ss[STORE_NAME])
    ELSE LoadReturn(m, Arr(<<>>))

\* Lines 145-162: the flat stores, the durable one first.
LoadFlat(m) ==
    IF m.ls[STORE_NAME] # Absent THEN LoadParsed(m, m.ls[STORE_NAME])
    ELSE IF m.ss[STORE_NAME] # Absent THEN LoadParsed(m, m.ss[STORE_NAME])
    ELSE LoadReturn(m, Arr(<<>>))

\* Lines 128-135: the read-only transaction and its getAll request.
LoadTx(m, t) ==
    Logged([BeginTx(m, t, "readonly") EXCEPT !.frame.pc = "l_get"], "getAll")

\* Lines 121-135: from the call to the first await.
LoadBegin(m, t) == IF m.db THEN LoadTx(m, t) ELSE InitCall(m, "l_init")

\* Lines 29-38 and 125-135: the open request settled.
LoadOpened(m, t, ok) ==
    IF ~supported
    THEN IF m.db THEN LoadTx(m, t) ELSE LoadFlat(m)
    ELSE IF ok THEN LoadTx([m EXCEPT !.db = TRUE], t)
    ELSE LoadCatch(Faulted(m))

\* LoadGot that returns the durable flat copy where there is one, and the
\* records of the store only where there is none.
LoadGotPrefersFlat(m, t, ok, fl) ==
    IF ok
    THEN LET A == SortById(TxSnap(m.txq, t))
             m1 == EndTx(m, t)
         IN IF Len(A) > 0 /\ m1.ls[STORE_NAME] = Absent
            THEN LET m2 == LsSet(m1, STORE_NAME, Stringify(Arr(A)), fl.ls)
                 IN IF fl.ls THEN LoadReturn(m2, Arr(A)) ELSE LoadCatch(m2)
            ELSE LoadFlat(m1)
    ELSE LoadCatch(Faulted(EndTx(m, t)))

\* LoadGot that writes localStorage only where the key is absent.
LoadGotRepairsIfAbsent(m, t, ok, fl) ==
    IF ok
    THEN LET A == SortById(TxSnap(m.txq, t))
             m1 == EndTx(m, t)
         IN IF Len(A) > 0
            THEN IF m1.ls[STORE_NAME] # Absent THEN LoadReturn(m1, Arr(A))
                 ELSE LET m2 == LsSet(m1, STORE_NAME, Stringify(Arr(A)), fl.ls)
                      IN IF fl.ls THEN LoadReturn(m2, Arr(A)) ELSE LoadCatch(m2)
            ELSE LoadFlat(m1)
    ELSE LoadCatch(Faulted(EndTx(m, t)))

\* LoadGot without the write of line 140 (no read-repair).
LoadGotNoRepair(m, t, ok, fl) ==
    IF ok
    THEN LET A == SortById(TxSnap(m.txq, t))
             m1 == EndTx(m, t)
         IN IF Len(A) > 0 THEN LoadReturn(m1, Arr(A)) ELSE LoadFlat(m1)
    ELSE LoadCatch(Faulted(EndTx(m, t)))

\* Lines 133-143: the getAll request settled.
LoadGot(m, t, ok, fl) ==
    IF ok
    THEN LET A == SortById(TxSnap(m.txq, t))
             m1 == EndTx(m, t)
         IN IF Len(A) > 0
            THEN LET m2 == LsSet(m1, STORE_NAME, Stringify(Arr(A)), fl.ls)
                 IN IF fl.ls THEN LoadReturn(m2, Arr(A)) ELSE LoadCatch(m2)
            ELSE LoadFlat(m1)
    ELSE LoadCatch(Faulted(EndTx(m, t)))

\* ImportBegin without the check of lines 208-210.
ImportBeginUnchecked(m, t, fl) ==
    LET E == m.frame.jsonData
    IN IF Truthy(E.data.students) /\ IsArray(E.data.students)
       THEN SaveBegin([m EXCEPT !.frame.students = E.data.students.a], t, fl)
       ELSE ImportAux(m, 1, fl.aux)

\* ImportBegin that takes an empty students array for nothing to import.
ImportBeginSkipsEmpty(m, t, fl) ==
    LET E == m.frame.jsonData
    IN IF ~E.present \/ ~E.hasData THEN Return(m, RetThrow)
       ELSE IF IsArray(E.data.students) /\ E.data.students.a # <<>>
       THEN SaveBegin([m EXCEPT !.frame.students = E.data.students.a], t, fl)
       ELSE ImportAux(m, 1, fl.aux)

\* Lines 207-217: from the call of importData to its first await (or its end).
ImportBegin(m, t, fl) ==
    LET E == m.frame.jsonData
    IN IF ~E.present \/ ~E.hasData THEN Return(m, RetThrow)
       ELSE IF Truthy(E.data.students) /\ IsArray(E.data.students)
       THEN SaveBegin([m EXCEPT !.frame.students = E.data.students.a], t, fl)
       ELSE ImportAux(m, 1, fl.aux)

\* ------------------------------------------------------------ initial states
\* What an earlier session can have left in the three stores: the database
\* and the 'students' texts independently empty, one record, or (the texts)
\* not JSON; the auxiliary keys all absent, all set, or one of them not JSON.
InitArrays == {a \in Arrays : Len(a) <= 1}
InitStores == {S \in Stores : Cardinality(S) <= 1}
InitTexts == {Absent, Malformed} \cup {Stringify(Arr(a)) : a \in InitArrays}
InitAux ==
    {[k \in AuxKeys |-> Absent]}
    \cup {[k \in AuxKeys |-> IF k = AuxKey(g) THEN Malformed ELSE Absent] : g \in AuxFieldSet}
    \cup {LET tup == [f \in AuxFieldSet |-> Stringify(AuxNonEmpty(f))]
          IN [k \in AuxKeys |-> tup[CHOOSE f \in AuxFieldSet : AuxKey(f) = k]]}

Flat(text, aux) == [k \in Keys |-> IF k = STORE_NAME THEN text ELSE aux[k]]

Init ==
    /\ supported \in BOOLEAN
    /\ db = FALSE
    /\ idb \in (IF supported THEN InitStores ELSE {{}})
    /\ \E text \in InitTexts : ls = Flat(text, [k \in AuxKeys |-> Absent])
    /\ \E text \in InitTexts : ss = Flat(text, [k \in AuxKeys |-> Absent])
    /\ txq = <<>>
    /\ task = [t \in Tasks |-> IdleFrame]
    /\ last = NoCall
    /\ prev = Brief(NoCall)

\* ------------------------------------------------------------------- actions
\* F is the set of outcomes storage operations can have: {TRUE} when none
\* fails, BOOLEAN when each may fail.  The fault choices that differ in effect
\* are kept, the others dropped.
EntryFaults(auxs, F) ==
    {fl \in [ls : F, ss : F, ls2 : F, aux : auxs] :
        /\ (fl.ls /\ fl.ss) => (fl.ls2 /\ fl.aux = 0)
        /\ ~fl.ls => fl.ss
        /\ ~fl.ls2 => fl.aux = 0}

NumTruthy(E) == Cardinality({f \in AuxFieldSet : Truthy(E.data[f])})
AuxFaults(E, F) == IF FALSE \in F THEN 0..NumTruthy(E) ELSE {0}

StepFaults(t, ok, ends, F) ==
    {fl \in [ls : {TRUE}, ss : {TRUE}, ls2 : F, aux : AuxFaults(task[t].jsonData, F)] :
        /\ ok => fl.ls2
        /\ (~fl.ls2 \/ task[t].top # "import" \/ (ok /\ ~ends)) => fl.aux = 0}

Idle(t) == task[t].top = "idle"
At(t, label) == task[t].pc = label

CallSave(t, args, F) ==
    /\ Idle(t)
    /\ \E R \in args, fl \in EntryFaults({0}, F) :
          Apply(t, SaveBegin(Enter(t, "save", R, NoJson), t, fl))

CallLoad(t) ==
    /\ Idle(t)
    /\ Apply(t, LoadBegin(Enter(t, "load", <<>>, NoJson), t))

CallExport(t) ==
    /\ Idle(t)
    /\ Apply(t, LoadBegin(Enter(t, "export", <<>>, NoJson), t))

\* importData is handed an envelope of its caller's, or the one exportData
\* returned last.
Exported == IF last.ret.k = "envelope" THEN {last.ret.e} ELSE {}

CallImport(t, args, F) ==
    /\ Idle(t)
    /\ \E E \in args \cup Exported :
          \E fl \in (IF E.hasData /\ IsArray(E.data.students)
                     THEN EntryFaults(AuxFaults(E, F), F)
                     ELSE [ls : {TRUE}, ss : {TRUE}, ls2 : {TRUE},
                           aux : AuxFaults(E, F)]) :
              Apply(t, ImportBegin(Enter(t, "import", <<>>, E), t, fl))

SaveInit(t, F) ==
    /\ At(t, "s_init")
    /\ \E ok \in (IF supported THEN F ELSE {TRUE}) :
          \E fl \in StepFaults(t, ok, ~supported, F) :
              Apply(t, SaveOpened(Cur(t), t, ok, fl))

SaveClear(t, F) ==
    /\ At(t, "s_clear")
    /\ CanRun(t)
    /\ \E ok \in F :
          \E fl \in StepFaults(t, ok, task[t].students = <<>>, F) :
              Apply(t, SaveCleared(Cur(t), t, ok, fl))

SavePut(t, F) ==
    /\ At(t, "s_put")
    /\ CanRun(t)
    /\ \E out \in {"ok"} \cup (IF FALSE \in F THEN {"error", "throw"} ELSE {}) :
          \E fl \in StepFaults(t, out = "ok", task[t].idx = Len(task[t].students), F) :
              Apply(t, SavePutDone(Cur(t), t, out, fl))

LoadInit(t, F) ==
    /\ At(t, "l_init")
    /\ \E ok \in (IF supported THEN F ELSE {TRUE}) :
          Apply(t, LoadOpened(Cur(t), t, ok))

LoadGet(t, F) ==
    /\ At(t, "l_get")
    /\ CanRun(t)
    /\ \E ok \in F :
          \E lsok \in (IF ok /\ TxSnap(txq, t) # {} THEN F ELSE {TRUE}) :
              Apply(t, LoadGot(Cur(t), t, ok, [NoFault EXCEPT !.ls = lsok]))

\* No call is in progress.
Quiet == \A t \in Tasks : Idle(t)

\* The empty environment: nothing stored yet.
InitEmpty ==
    /\ supported \in BOOLEAN
    /\ db = FALSE
    /\ idb = {}
    /\ ls = EmptyFlat
    /\ ss = EmptyFlat
    /\ txq = <<>>
    /\ task = [t \in Tasks |-> IdleFrame]
    /\ last = NoCall
    /\ prev = Brief(NoCall)

\* One caller that awaits every call before it makes the next, saving and
\* loading over whatever the stores hold; no storage operation fails.
Next ==
    \/ Quiet /\ CallSave(1, Arrays, {TRUE})
    \/ Quiet /\ CallLoad(1)
    \/ SaveInit(1, {TRUE})
    \/ SaveClear(1, {TRUE})
    \/ SavePut(1, {TRUE})
    \/ LoadInit(1, {TRUE})
    \/ LoadGet(1, {TRUE})

Spec == Init /\ [][Next]_vars

\* The same caller from the empty environment, where every storage operation
\* may fail.
NextF ==
    \/ Quiet /\ CallSave(1, SmallArrays, BOOLEAN)
    \/ Quiet /\ CallLoad(1)
    \/ SaveInit(1, BOOLEAN)
    \/ SaveClear(1, BOOLEAN)
    \/ SavePut(1, BOOLEAN)
    \/ LoadInit(1, BOOLEAN)
    \/ LoadGet(1, BOOLEAN)

SpecF == InitEmpty /\ [][NextF]_vars

\* What an earlier session can have left, for export and import: the database
\* empty or with a record, the 'students' texts absent, not JSON or another
\* record, the auxiliary keys as InitAux has them.
InitTextsE == {Absent, Malformed, Stringify(Arr(<<[id |-> 1, v |-> "b"]>>))}
InitE ==
    /\ supported \in BOOLEAN
    /\ db = FALSE
    /\ idb \in (IF supported THEN {{}, {[id |-> 2, v |-> "a"]}} ELSE {{}})
    /\ \E text \in InitTextsE, aux \in InitAux : ls = Flat(text, aux)
    /\ \E text \in {Absent, Stringify(Arr(<<[id |-> 1, v |-> "a"]>>))} :
          ss = Flat(text, [k \in AuxKeys |-> Absent])
    /\ txq = <<>>
    /\ task = [t \in Tasks |-> IdleFrame]
    /\ last = NoCall
    /\ prev = Brief(NoCall)

\* The same caller, exporting and importing too; no storage operation fails.
NextE ==
    \/ Quiet /\ CallExport(1)
    \/ Quiet /\ CallImport(1, Envelopes, {TRUE})
    \/ SaveInit(1, {TRUE})
    \/ SaveClear(1, {TRUE})
    \/ SavePut(1, {TRUE})
    \/ LoadInit(1, {TRUE})
    \/ LoadGet(1, {TRUE})

SpecE == InitE /\ [][NextE]_vars

\* The envelopes handed to importData where storage operations may fail.  The
\* blobs are all absent, or mixed: an empty array (truthy), null, an object,
\* and an array where an object is expected (nothing checks the type).  The
\* students member is absent, no array, an empty array or two records.
MixedAux ==
    [f \in AuxFieldSet |->
        CASE f = "blockedStudents" -> Arr(<<>>)
          [] f = "departments" -> Null
          [] f = "customSubjects" -> Obj(<<Sample>>)
          [] OTHER -> Arr(<<Sample>>)]
NoAux == [f \in AuxFieldSet |-> Undef]

EnvelopesI ==
    {Envelope(Data(Undef, MixedAux)),
     Envelope(Data(Obj(<<>>), NoAux)),
     Envelope(Data(Arr(<<>>), NoAux)),
     Envelope(Data(Arr(<<[id |-> 2, v |-> "a"], [id |-> 1, v |-> "b"]>>), MixedAux))}

\* What an earlier session has left, for import: a record in the database
\* (where there is one), others in the two flat stores, every auxiliary key
\* set.
InitI ==
    /\ supported \in BOOLEAN
    /\ db = FALSE
    /\ idb = (IF supported THEN {[id |-> 2, v |-> "a"]} ELSE {})
    /\ \E aux \in {a \in InitAux : \A k \in AuxKeys : a[k] \notin {Absent, Malformed}} :
          ls = Flat(Stringify(Arr(<<[id |-> 1, v |-> "b"]>>)), aux)
    /\ ss = Flat(Stringify(Arr(<<[id |-> 1, v |-> "a"]>>)), [k \in AuxKeys |-> Absent])
    /\ txq = <<>>
    /\ task = [t \in Tasks |-> IdleFrame]
    /\ last = NoCall
    /\ prev = Brief(NoCall)

\* One caller importing, every storage operation of which may fail.
NextI ==
    \/ Quiet /\ CallImport(1, EnvelopesI, BOOLEAN)
    \/ SaveInit(1, BOOLEAN)
    \/ SaveClear(1, BOOLEAN)
    \/ SavePut(1, BOOLEAN)

SpecI == InitI /\ [][NextI]_vars

\* initDB as the application calls it itself: lines 19-27 at the call, lines
\* 29-38 when the open request settles.  It resolves with the connection, or
\* with null where there is no IndexedDB.
InitOpened(m, ok) ==
    IF ~supported THEN Return(m, RetVal(Null))
    ELSE IF ok THEN Return([m EXCEPT !.db = TRUE], RetBool(TRUE))
    ELSE Return(Faulted(m), RetThrow)

CallInit(t) ==
    /\ Idle(t)
    /\ Apply(t, InitCall(Enter(t, "init", <<>>, NoJson), "i_init"))

InitDone(t, F) ==
    /\ At(t, "i_init")
    /\ \E ok \in (IF supported THEN F ELSE {TRUE}) :
          Apply(t, InitOpened(Cur(t), ok))

\* The empty environment with IndexedDB.
InitC == InitEmpty /\ supported

\* Callers that do not wait for one another: a call is made while others are
\* suspended at an await, and the suspended calls resume in any order the
\* store allows.  No storage operation fails.
NextC ==
    \E t \in Tasks :
        \/ CallSave(t, SmallArrays, {TRUE})
        \/ CallLoad(t)
        \/ CallInit(t)
        \/ SaveInit(t, {TRUE})
        \/ SaveClear(t, {TRUE})
        \/ SavePut(t, {TRUE})
        \/ LoadInit(t, {TRUE})
        \/ LoadGet(t, {TRUE})
        \/ InitDone(t, {TRUE})

SpecC == InitC /\ [][NextC]_vars

\* One caller that awaits every call before it makes the next, using all four
\* operations from the empty environment; no storage operation fails.
NextA ==
    \/ Quiet /\ CallSave(1, Arrays, {TRUE})
    \/ Quiet /\ CallLoad(1)
    \/ Quiet /\ CallExport(1)
    \/ Quiet /\ CallImport(1, Envelopes, {TRUE})
    \/ SaveInit(1, {TRUE})
    \/ SaveClear(1, {TRUE})
    \/ SavePut(1, {TRUE})
    \/ LoadInit(1, {TRUE})
    \/ LoadGet(1, {TRUE})

SpecA == InitEmpty /\ [][NextA]_vars

\* ==================================================================== claims
SetOf(s) == {s[i] : i \in 1..Len(s)}
Text(R) == Stringify(Arr(R))

\* No call is in progress and the call that returned last was an `op`.
Done(op) == Quiet /\ last.op = op

\* The primary store is available: initDB gives a connection, not null.
Available == supported

\* C1: round trip.  With the primary store available and no storage operation
\* failing, a loadStudents that follows a saveStudents(R) that returned gives
\* the records of R, each once (for R empty, the empty array).
C1_RoundTrip ==
    (last.op = "load" /\ prev.op = "save" /\ prev.ret.k = "bool" /\ Available
        /\ last.clean /\ prev.clean)
    => /\ last.ret.k = "value"
       /\ IsArray(last.ret.x)
       /\ SetOf(last.ret.x.a) = SetOf(prev.students)
       /\ Len(last.ret.x.a) = Len(prev.students)

\* A round trip of two records over a store that held another one, given back
\* in key order, which is not the order they were saved in.
C1_Witness ==
    /\ last.op = "load" /\ prev.op = "save" /\ Available
    /\ Len(prev.students) = 2
    /\ last.ret.k = "value"
    /\ last.ret.x.a # prev.students
    /\ SetOf(last.ret.x.a) = SetOf(prev.students)

\* C2: fallback.  Without IndexedDB saveStudents(R) returns true, and the
\* loadStudents that follows returns R as it reads it from localStorage's
\* 'students', whatever the flat stores held before.
C2_Fallback ==
    /\ (last.op = "save" /\ ~Available /\ last.clean) => last.ret = RetBool(TRUE)
    /\ (last.op = "load" /\ prev.op = "save" /\ ~Available /\ last.clean /\ prev.clean)
       => /\ prev.ret = RetBool(TRUE)
          /\ last.ret = RetVal(Arr(prev.students))
          /\ last.pre.ls[STORE_NAME] = Text(prev.students)
          /\ Parse(last.pre.ls[STORE_NAME]) = ParseOk(last.ret.x)
          /\ last.log = <<>>

C2_Witness ==
    /\ last.op = "load" /\ prev.op = "save" /\ ~Available
    /\ Len(prev.students) = 2
    /\ last.ret = RetVal(Arr(prev.students))
    /\ idb = {}

\* C3: read-repair.  A loadStudents that finds records R in the primary store
\* returns R and leaves localStorage's 'students' holding R, whatever it held.
C3_ReadRepair ==
    (Done("load") /\ last.clean /\ Available /\ last.pre.idb # {})
    => /\ last.ret = RetVal(Arr(SortById(last.pre.idb)))
       /\ Parse(ls[STORE_NAME]) = ParseOk(last.ret.x)
       /\ SetOf(last.ret.x.a) = last.pre.idb

\* The durable text was absent, the store had a record, and the text is there.
C3_Witness ==
    /\ Done("load") /\ Available
    /\ last.pre.idb # {}
    /\ last.pre.ls[STORE_NAME] = Absent
    /\ ls[STORE_NAME] = Text(SortById(last.pre.idb))

\* The text under 'students' of a flat store is there and does not parse.
Unparsable(text) == text # Absent /\ ~Parse(text).ok

\* loadStudents found nothing in the primary store: it is unavailable or empty.
PrimaryEmpty(S) == ~Available \/ S.idb = {}

\* What the fallback chain gives over the storage S, where the text it reads
\* parses: the primary store's records if it has some, else the array in
\* localStorage's 'students' if the key is there, else the one in
\* sessionStorage's if that is there, else the empty array.
Chain(S) ==
    IF ~PrimaryEmpty(S) THEN Arr(SortById(S.idb))
    ELSE IF S.ls[STORE_NAME] # Absent THEN Parse(S.ls[STORE_NAME]).v
    ELSE IF S.ss[STORE_NAME] # Absent THEN Parse(S.ss[STORE_NAME]).v
    ELSE Arr(<<>>)

\* The text the chain reads does not parse.
ChainUnparsable(S) ==
    /\ PrimaryEmpty(S)
    /\ \/ Unparsable(S.ls[STORE_NAME])
       \/ S.ls[STORE_NAME] = Absent /\ Unparsable(S.ss[STORE_NAME])

\* C5: the fallback chain is strictly ordered.  loadStudents never throws, and
\* (no storage operation failing, the text read being JSON) returns the first
\* of: the primary store's records if there are some, the array under
\* localStorage's 'students' if that key is there (an empty array too), the
\* array under sessionStorage's, the empty array.
C5_FallbackChain ==
    last.op = "load"
    => /\ last.ret.k = "value"
       /\ (last.clean /\ ~ChainUnparsable(last.pre)) => last.ret.x = Chain(last.pre)
       /\ (last.pre.idb = {} /\ last.pre.ls[STORE_NAME] = Absent
             /\ last.pre.ss[STORE_NAME] = Absent) => last.ret.x = Arr(<<>>)

\* localStorage held an explicit empty array and sessionStorage a record: the
\* empty array was returned.
C5_Witness ==
    /\ last.op = "load"
    /\ PrimaryEmpty(last.pre)
    /\ last.pre.ls[STORE_NAME] = Text(<<>>)
    /\ last.pre.ss[STORE_NAME] = Text(<<[id |-> 1, v |-> "a"]>>)
    /\ last.ret = RetVal(Arr(<<>>))

\* C6: malformed JSON under localStorage's 'students', with nothing in the
\* primary store: loadStudents does not throw, returns the empty array even
\* when sessionStorage holds a valid array, and leaves the three stores alone.
C6_MalformedSwallowed ==
    (last.op = "load" /\ PrimaryEmpty(last.pre) /\ Unparsable(last.pre.ls[STORE_NAME]))
    => /\ last.ret = RetVal(Arr(<<>>))
       /\ Quiet => (idb = last.pre.idb /\ ls = last.pre.ls /\ ss = last.pre.ss)

C6_Witness ==
    /\ Done("load")
    /\ PrimaryEmpty(last.pre)
    /\ last.pre.ls[STORE_NAME] = Malformed
    /\ Parse(last.pre.ss[STORE_NAME]) = ParseOk(Arr(<<[id |-> 1, v |-> "a"]>>))
    /\ last.ret = RetVal(Arr(<<>>))
    /\ ls = last.pre.ls

\* The operations on the primary store, as a call's log names them.
PrimaryOps == {"open", "clear", "put"}
Count(lg, e) == Cardinality({i \in 1..Len(lg) : lg[i] = e})

\* In the log, both flat stores are written before any primary operation.
FlatFirst(lg) ==
    \A i \in 1..Len(lg) :
        lg[i] \in PrimaryOps
        => /\ \E j \in 1..(i - 1) : lg[j] = "lsSet"
           /\ \E j \in 1..(i - 1) : lg[j] = "ssSet"

\* The call of task t is a saveStudents waiting for the connection or for a
\* request of its transaction.
Saving(t) == task[t].top = "save" /\ task[t].pc \in {"s_init", "s_clear", "s_put"}

\* C7: flat first.  In every saveStudents(R), failing or not, localStorage and
\* sessionStorage are written with R under 'students' before the connection is
\* opened and before the clear or a put is issued: while the call waits for
\* the connection or for a request, both hold R.
C7_FlatFirst ==
    /\ \A t \in Tasks :
          /\ task[t].top = "save" => FlatFirst(task[t].log)
          /\ Saving(t) => /\ ls[STORE_NAME] = Text(task[t].students)
                          /\ ss[STORE_NAME] = Text(task[t].students)
    /\ last.op = "save" => FlatFirst(last.log)

\* A save that wrote both flat stores, opened the connection, cleared the
\* store and put two records.
C7_Witness ==
    /\ last.op = "save"
    /\ last.log = <<"lsSet", "ssSet", "open", "clear", "put", "put">>

\* C8: saveStudents(R) returns true only if IndexedDB is unavailable (nothing
\* but the flat stores was written), or it is available and the clear and the
\* put of every record of R were accepted; the store then holds exactly R.
C8_TrueMeansAccepted ==
    (last.op = "save" /\ last.ret = RetBool(TRUE))
    => IF ~Available
       THEN /\ \A i \in 1..Len(last.log) : last.log[i] \notin PrimaryOps
            /\ Quiet => ls[STORE_NAME] = Text(last.students)
       ELSE /\ last.clean
            /\ Count(last.log, "clear") = 1
            /\ Count(last.log, "put") = Len(last.students)
            /\ Quiet => idb = SetOf(last.students)

\* A save of two records over a store that held another returned true.
C8_Witness ==
    /\ Done("save") /\ Available
    /\ last.ret = RetBool(TRUE)
    /\ Len(last.students) = 2
    /\ last.pre.idb # {}
    /\ last.pre.idb # idb

\* C9 as claimed: a saveStudents(R) in which a storage operation failed (a
\* flat-store write, the open, the clear, a put) does not throw: it writes R
\* to localStorage again and returns false, localStorage then holding R.
C9_FailureReturnsFalse ==
    (last.op = "save" /\ ~last.clean)
    => /\ last.ret = RetBool(FALSE)
       /\ last.log[Len(last.log)] = "lsSet"
       /\ Quiet => ls[STORE_NAME] = Text(last.students)

\* What a loadStudents() called over the storage S returns when it runs to
\* its end with no other call in between and no storage operation failing.
LoadOver(S) ==
    LET m0 == [ls |-> S.ls, ss |-> S.ss, idb |-> S.idb, db |-> S.db, txq |-> <<>>,
               frame |-> [IdleFrame EXCEPT !.top = "load"],
               done |-> FALSE, ret |-> RetNone]
        m1 == LoadBegin(m0, 1)
        m2 == IF m1.frame.pc = "l_init" THEN LoadOpened(m1, 1, TRUE) ELSE m1
        m3 == IF m2.done THEN m2 ELSE LoadGot(m2, 1, TRUE, NoFault)
    IN m3.ret

\* The records loadStudents() returns over S, as a set.
RecordsOver(S) == SetOf(LoadOver(S).x.a)

\* importData has returned from importing the envelope that the exportData
\* before it returned (no storage operation failing).
Reimported ==
    /\ Done("import") /\ last.clean
    /\ prev.op = "export" /\ prev.clean
    /\ prev.ret = RetEnv(last.jsonData)

\* The value exportData reads under the key of field f in the flat store F.
Decoded(F, f) == IF F[AuxKey(f)] = Absent THEN AuxEmpty(f) ELSE Parse(F[AuxKey(f)]).v

\* C4 as claimed: importData(exportData()) leaves what loadStudents() returns
\* and what is stored under each of the four auxiliary keys as they were
\* before the export, a key that was absent staying absent.
C4_EnvelopeRoundTrip ==
    Reimported
    => /\ last.ret = RetBool(TRUE)
       /\ RecordsOver(Snapshot) = SetOf(last.jsonData.data.students.a)
       /\ RecordsOver(Snapshot) = RecordsOver(last.pre)
       /\ \A k \in AuxKeys : ls[k] = last.pre.ls[k]

\* C4 as amended: importData(exportData()) leaves what loadStudents() returns
\* and the value each auxiliary key decodes to (its empty array or object
\* when the key is absent) as they were; a key that was absent is stored
\* afterwards, as the text of that empty array or object.
C4_EnvelopeRoundTripDecoded ==
    Reimported
    => /\ last.ret = RetBool(TRUE)
       /\ RecordsOver(Snapshot) = SetOf(last.jsonData.data.students.a)
       /\ RecordsOver(Snapshot) = RecordsOver(last.pre)
       /\ \A i \in 1..Len(AuxFields) :
             LET f == AuxFields[i]
             IN /\ Decoded(ls, f) = Decoded(last.pre.ls, f)
                /\ Decoded(ls, f) = last.jsonData.data[f]
                /\ last.pre.ls[AuxKey(f)] = Absent
                   => ls[AuxKey(f)] = Stringify(AuxEmpty(f))
       /\ \A k \in AuxKeys : ss[k] = Absent

\* An export with records, made when no auxiliary key was stored, was imported
\* again: the records are as before and every auxiliary key is stored now.
C4_Witness ==
    /\ Reimported
    /\ last.jsonData.data.students.a # <<>>
    /\ RecordsOver(Snapshot) = RecordsOver(last.pre)
    /\ \A i \in 1..Len(AuxFields) :
          /\ last.pre.ls[AuxKey(AuxFields[i])] = Absent
          /\ ls[AuxKey(AuxFields[i])] = Stringify(AuxEmpty(AuxFields[i]))

\* C10: importData throws when jsonData is missing or has no `data`, and then
\* performs no storage operation: the primary store, both flat stores and
\* the connection are as they were.
C10_InvalidEnvelope ==
    (last.op = "import" /\ (~last.jsonData.present \/ ~last.jsonData.hasData))
    => /\ last.ret = RetThrow
       /\ last.log = <<>>
       /\ Quiet => Snapshot = last.pre

\* An envelope without data was refused over stores that held something.
C10_Witness ==
    /\ Done("import")
    /\ last.jsonData = NoDataJson
    /\ last.ret = RetThrow
    /\ idb # {}
    /\ \E k \in AuxKeys : ls[k] # Absent

\* importData was handed an envelope with data whose students member is an
\* array.
ImportsArray(c) ==
    c.op = "import" /\ c.jsonData.hasData /\ IsArray(c.jsonData.data.students)

\* C11: import replaces the record set.  After importData(E) has returned with
\* E.data.students an array S (no storage operation failing), loadStudents()
\* returns exactly the records of S, whatever was stored before; when
\* E.data.students is absent or no array, the records of the primary store and
\* the 'students' texts of both flat stores are left as they were.
C11_ImportReplaces ==
    /\ (Done("import") /\ ImportsArray(last) /\ last.clean)
       => /\ last.ret = RetBool(TRUE)
          /\ LoadOver(Snapshot).k = "value"
          /\ RecordsOver(Snapshot) = SetOf(last.jsonData.data.students.a)
          /\ Len(LoadOver(Snapshot).x.a) = Len(last.jsonData.data.students.a)
    /\ (Done("import") /\ last.jsonData.hasData /\ ~ImportsArray(last))
       => /\ idb = last.pre.idb
          /\ ls[STORE_NAME] = last.pre.ls[STORE_NAME]
          /\ ss[STORE_NAME] = last.pre.ss[STORE_NAME]

\* An empty array was imported over stores that held records, and a load
\* would now give none.
C11_Witness ==
    /\ Done("import") /\ ImportsArray(last) /\ last.clean
    /\ last.jsonData.data.students.a = <<>>
    /\ RecordsOver(last.pre) # {}
    /\ RecordsOver(Snapshot) = {}

\* C12: importData writes each of the four auxiliary blobs verbatim under its
\* localStorage key (settings under 'requiredSubjectSettings'), replacing what
\* was there, if and only if the envelope's value for it is truthy; the keys
\* of the other blobs keep their text, and sessionStorage is never written
\* for an auxiliary key (no storage operation failing, but for the last).
C12_AuxVerbatim ==
    /\ (Done("import") /\ last.jsonData.hasData /\ last.clean)
       => /\ \A i \in 1..Len(AuxFields) :
                LET f == AuxFields[i]
                    x == last.jsonData.data[f]
                IN IF Truthy(x)
                   THEN /\ ls[AuxKey(f)] = Stringify(x)
                        /\ Parse(ls[AuxKey(f)]) = ParseOk(x)
                   ELSE ls[AuxKey(f)] = last.pre.ls[AuxKey(f)]
          /\ Count(last.log, "lsSet")
               = NumTruthy(last.jsonData) + (IF ImportsArray(last) THEN 1 ELSE 0)
    /\ Done("import") => \A k \in AuxKeys : ss[k] = last.pre.ss[k]

\* The mixed blobs were imported over keys that were all set: the empty array
\* replaced a text, the null one left its key alone, and an array was stored
\* under the key of the settings object.
C12_Witness ==
    /\ Done("import") /\ last.clean
    /\ last.jsonData.data = Data(Undef, MixedAux)
    /\ last.pre.ls["blockedStudents"] = Stringify(AuxNonEmpty("blockedStudents"))
    /\ ls["blockedStudents"] = Stringify(Arr(<<>>))
    /\ ls["departments"] = Stringify(AuxNonEmpty("departments"))
    /\ ls["requiredSubjectSettings"] = Stringify(Arr(<<Sample>>))

\* The text under an auxiliary key of the flat store F is no JSON.
AuxMalformed(F) == \E k \in AuxKeys : Unparsable(F[k])

\* C13: the parse-failure asymmetry of exportData.  Text that is no JSON under
\* one of the four auxiliary keys makes exportData throw; such text under
\* 'students' does not: the envelope carries what loadStudents returned (the
\* empty array, when the primary store has nothing).  An auxiliary key that is
\* absent gives its default: [] for blockedStudents and departments, {} for
\* customSubjects and settings.
C13_ExportAsymmetry ==
    last.op = "export"
    => /\ AuxMalformed(last.pre.ls) => last.ret = RetThrow
       /\ ~AuxMalformed(last.pre.ls)
          => /\ last.ret.k = "envelope"
             /\ last.ret.e.present /\ last.ret.e.hasData
             /\ last.ret.e.data.students = LoadOver(last.pre).x
             /\ (PrimaryEmpty(last.pre) /\ Unparsable(last.pre.ls[STORE_NAME]))
                => last.ret.e.data.students = Arr(<<>>)
             /\ \A i \in 1..Len(AuxFields) :
                   LET f == AuxFields[i]
                       text == last.pre.ls[AuxKey(f)]
                   IN last.ret.e.data[f]
                        = (IF text = Absent THEN AuxEmpty(f) ELSE Parse(text).v)

\* An export over a 'students' text that is no JSON and no auxiliary key: an
\* envelope with no records and the four defaults.
C13_Witness ==
    /\ Done("export")
    /\ PrimaryEmpty(last.pre)
    /\ last.pre.ls[STORE_NAME] = Malformed
    /\ \A k \in AuxKeys : last.pre.ls[k] = Absent
    /\ last.ret = RetEnv(Envelope(Data(Arr(<<>>), [f \in AuxFieldSet |-> AuxEmpty(f)])))

\* The call c issued an open request (line 27).
Opens(c) == \E i \in 1..Len(c.log) : c.log[i] = "open"

\* C14 as claimed: initDB is idempotent.  A call that needs the connection
\* (initDB itself, or the lazy initialization of saveStudents and
\* loadStudents) and finds one cached uses it and opens no other.
C14_InitReuses ==
    (last.op \in {"init", "save", "load"} /\ last.pre.db) => ~Opens(last)

\* The saveStudents of task t has a request of its read-write transaction
\* pending.
Writing(t) == task[t].top = "save" /\ task[t].pc \in {"s_clear", "s_put"}

Denotes(text, S) ==
    IF text = Absent THEN S = {}
    ELSE /\ Parse(text).ok
         /\ IsArray(Parse(text).v)
         /\ SetOf(Parse(text).v.a) = S

\* C16: tier consistency at rest.  From the empty environment with the
\* primary store available, after any sequence of saveStudents, loadStudents,
\* exportData and importData calls made one after the other, no storage
\* operation failing: whenever no call is in progress, the primary store,
\* localStorage's 'students' and sessionStorage's 'students' denote the same
\* record set.
C16_TiersAgree ==
    (Quiet /\ Available)
    => /\ Denotes(ls[STORE_NAME], idb)
       /\ Denotes(ss[STORE_NAME], idb)

\* After a save of two records out of key order and a load: the three tiers
\* hold the two records, the durable text in key order (read-repair), the
\* session one as saved.
C16_Witness ==
    /\ Quiet /\ Available
    /\ last.op \in {"load", "export"}
    /\ Cardinality(idb) = 2
    /\ ls[STORE_NAME] # ss[STORE_NAME]
    /\ Denotes(ls[STORE_NAME], idb)
    /\ Denotes(ss[STORE_NAME], idb)

\* The call c is a loadStudents in which the open request or the getAll
\* request was rejected (and no flat-store write failed).
PrimaryRejected(c) ==
    /\ c.op = "load" /\ ~c.clean
    /\ \A i \in 1..Len(c.log) : c.log[i] # "lsThrow"

\* What the flat tier of the storage S holds: the array under localStorage's
\* 'students' if the key is there, else the one under sessionStorage's, else
\* the empty array.
FlatChain(S) ==
    IF S.ls[STORE_NAME] # Absent THEN Parse(S.ls[STORE_NAME]).v
    ELSE IF S.ss[STORE_NAME] # Absent THEN Parse(S.ss[STORE_NAME]).v
    ELSE Arr(<<>>)

\* C17 as claimed: a loadStudents in which the open or the getAll request is
\* rejected does not throw and falls back: it returns the records of the flat
\* tier (localStorage first, then sessionStorage).
C17_RejectionFallsBack ==
    PrimaryRejected(last) => last.ret = RetVal(FlatChain(last.pre))

\* A load has returned last, after a save that returned true, and what it
\* returned are records that are not the saved ones.
StaleLoad ==
    /\ Quiet
    /\ last.op = "load" /\ last.ret.k = "value" /\ last.ret.x.a # <<>>
    /\ prev.op = "save" /\ prev.ret = RetBool(TRUE)
    /\ SetOf(last.ret.x.a) # SetOf(prev.students)

\* C18: the stale read-repair race.  A loadStudents that read records R0 from
\* the primary store and resumes after a saveStudents(R) ran to completion
\* writes R0 over localStorage's 'students': when both have returned, the save
\* with true, the primary store holds R and localStorage the older R0.
C18_StaleReadRepair ==
    StaleLoad
    => /\ ls[STORE_NAME] = Text(last.ret.x.a)
       /\ idb = SetOf(prev.students)
       /\ ~Denotes(ls[STORE_NAME], idb)

\* The load was called over a store that held R0 = <<1a>>, the save of two
\* other records ran to its end, the load returned R0: the primary store and
\* sessionStorage hold the two records, localStorage holds R0.
C18_Witness ==
    /\ StaleLoad
    /\ last.pre.idb = SetOf(last.ret.x.a)
    /\ last.ret.x.a = <<[id |-> 1, v |-> "a"]>>
    /\ Len(prev.students) = 2
    /\ idb = SetOf(prev.students)
    /\ ss[STORE_NAME] = Text(prev.students)
    /\ ls[STORE_NAME] = Text(last.ret.x.a)

\* A loadStudents in which nothing failed has returned, called after a
\* saveStudents that returned false, with the primary store available.
LoadedAfterFailedSave ==
    /\ Done("load") /\ last.clean
    /\ prev.op = "save" /\ prev.ret = RetBool(FALSE)
    /\ Available

\* C19: after saveStudents(R) returned false (a write to the primary store
\* was rejected), the next loadStudents() returns what the primary store was
\* left with if that is not empty (a part of R or an older set) and writes it
\* over the copy of R in localStorage; it returns R, from localStorage, only
\* when the primary store was left empty.
C19_LoadAfterFailedSave ==
    LoadedAfterFailedSave
    => /\ last.pre.ls[STORE_NAME] = Text(prev.students)
       /\ IF last.pre.idb # {}
          THEN /\ last.ret = RetVal(Arr(SortById(last.pre.idb)))
               /\ ls[STORE_NAME] = Text(SortById(last.pre.idb))
          ELSE /\ last.ret = RetVal(Arr(prev.students))
               /\ ls[STORE_NAME] = Text(prev.students)

\* The save of two records was left with the first put only; the load
\* returned that one record and wrote it over the copy of the two.
C19_Witness ==
    /\ LoadedAfterFailedSave
    /\ prev.students = <<[id |-> 2, v |-> "a"], [id |-> 1, v |-> "b"]>>
    /\ last.pre.idb = {[id |-> 2, v |-> "a"]}
    /\ last.ret = RetVal(Arr(<<[id |-> 2, v |-> "a"]>>))
    /\ ls[STORE_NAME] = Text(<<[id |-> 2, v |-> "a"]>>)

\* In an importData that returned true every truthy blob was written, so the
\* storage operations of its saveStudents are the log but for that many
\* entries; saveStudents returned false when its last one is the write of
\* line 111 (a save that returns true ends with the write of line 75, the
\* open, the clear or a put).
InnerSaveFalse(c) ==
    LET n == Len(c.log) - NumTruthy(c.jsonData)
    IN /\ ImportsArray(c)
       /\ c.ret = RetBool(TRUE)
       /\ n >= 2
       /\ c.log[n] = "lsSet"

\* C20: importData does not look at the boolean of its saveStudents call.
\* With E.data there, it returns true or throws, and nothing else; it throws
\* only when a localStorage write threw (its last storage operation); when
\* saveStudents returned false it still writes every truthy blob under its
\* key and returns true.
C20_ImportIgnoresSave ==
    (Done("import") /\ last.jsonData.present /\ last.jsonData.hasData)
    => /\ last.ret \in {RetBool(TRUE), RetThrow}
       /\ last.ret = RetThrow
          => /\ last.log # <<>>
             /\ last.log[Len(last.log)] = "lsThrow"
       /\ (\A i \in 1..Len(last.log) : last.log[i] # "lsThrow")
          => last.ret = RetBool(TRUE)
       /\ last.ret = RetBool(TRUE)
          => \A i \in 1..Len(AuxFields) :
                Truthy(last.jsonData.data[AuxFields[i]])
                => ls[AuxKey(AuxFields[i])]
                     = Stringify(last.jsonData.data[AuxFields[i]])

\* The import of two records and the mixed blobs whose saveStudents returned
\* false, the store keeping what it had: true was returned and the blobs are
\* stored.
C20_Witness ==
    /\ Done("import")
    /\ InnerSaveFalse(last)
    /\ ~last.clean
    /\ last.jsonData.data.blockedStudents = Arr(<<>>)
    /\ Len(last.jsonData.data.students.a) = 2
    /\ idb # SetOf(last.jsonData.data.students.a)
    /\ ls[STORE_NAME] = Text(last.jsonData.data.students.a)
    /\ ls["blockedStudents"] = Stringify(Arr(<<>>))
    /\ ls["requiredSubjectSettings"] = Stringify(Arr(<<Sample>>))

=============================================================================
